---- MODULE Spec2Model ----
(***************************************************************************)
(* Transaction authorization for virtual cards: the spending-limit ledger  *)
(* (VirtualCardService.update_spend), the gate and limit checks            *)
(* (VirtualCardService.validate_transaction), the merchant classifier      *)
(* (MerchantCategoryService.map_merchant_to_category), the HTTP handler    *)
(* create_new_transaction, the risk rules of TransactionValidationService  *)
(* and the freezing and unfreezing of a card.                              *)
(*                                                                         *)
(* Time is counted in whole days since 2024-01-01 (a Monday).  Every       *)
(* last_reset the code stores is a midnight (a period start or the default *)
(* "2000-01-01T00:00:00+00:00"), so (now - last_reset).days is the         *)
(* difference of the day numbers whatever the time of day of `now`.        *)
(* Amounts are whole currency units; float(Decimal) and Decimal(str(float))*)
(* round-trip exactly on them.                                             *)
(***************************************************************************)
EXTENDS Integers, Sequences, FiniteSets, TLC

VARIABLES now, card, calls, ticks, ev, svc, rp, rules

vars == <<now, card, calls, ticks, ev, svc, rp, rules>>

(***************************************************************************)
(* Bounds of the model.                                                    *)
(***************************************************************************)
MaxCalls == 2
MaxTicks == 2
MaxDay == 800

(***************************************************************************)
(* SpendingLimitPeriod, in the enum's declaration order.                   *)
(***************************************************************************)
PeriodOrder == <<"daily", "weekly", "monthly", "yearly", "total">>

SpendingLimitPeriod == {PeriodOrder[i] : i \in 1..Len(PeriodOrder)}

CardStatus == {"active", "frozen", "cancelled", "expired"}

(***************************************************************************)
(* The Gregorian calendar around the model's window.                       *)
(***************************************************************************)
EpochYear == 2024

Years == 2024..2027

IsLeap(y) == (y % 4 = 0) /\ ((y % 100 # 0) \/ (y % 400 = 0))

DaysInYear(y) == IF IsLeap(y) THEN 366 ELSE 365

DaysInMonth(y, m) ==
  IF m = 2 THEN (IF IsLeap(y) THEN 29 ELSE 28)
  ELSE IF m \in {4, 6, 9, 11} THEN 30 ELSE 31

RECURSIVE YearStart(_)
YearStart(y) == IF y <= EpochYear THEN 0 ELSE YearStart(y - 1) + DaysInYear(y - 1)

RECURSIVE MonthStart(_, _)
MonthStart(y, m) == IF m = 1 THEN YearStart(y) ELSE MonthStart(y, m - 1) + DaysInMonth(y, m - 1)

YearOf(d) == CHOOSE y \in Years : YearStart(y) <= d /\ d < YearStart(y) + DaysInYear(y)

MonthOf(d) ==
  LET y == YearOf(d)
  IN CHOOSE m \in 1..12 : MonthStart(y, m) <= d /\ d < MonthStart(y, m) + DaysInMonth(y, m)

\* datetime.weekday(): Monday is 0; day 0 is Monday 2024-01-01
Weekday(d) == d % 7

\* "2000-01-01T00:00:00+00:00", 8766 days before 2024-01-01
DefaultReset == 0 - 8766

\* datetime.min (0001-01-01), 738885 days before 2024-01-01
DatetimeMin == 0 - 738885

(***************************************************************************)
(* VirtualCardService._is_limit_period_expired                             *)
(***************************************************************************)
\* a variant in which a Total counter expires like a yearly one
is_limit_period_expired_total(last_reset, period, t) ==
  CASE period = "daily" -> (t - last_reset) >= 1
    [] period = "weekly" -> (t - last_reset) >= 7
    [] period = "monthly" -> (t - last_reset) >= 30
    [] period = "yearly" -> (t - last_reset) >= 365
    [] OTHER -> (t - last_reset) >= 365

is_limit_period_expired(last_reset, period, t) ==
  CASE period = "daily" -> (t - last_reset) >= 1
    [] period = "weekly" -> (t - last_reset) >= 7
    [] period = "monthly" -> (t - last_reset) >= 30
    [] period = "yearly" -> (t - last_reset) >= 365
    [] OTHER -> FALSE

(***************************************************************************)
(* VirtualCardService._get_period_start                                    *)
(***************************************************************************)
get_period_start(period, t) ==
  CASE period = "daily" -> t
    [] period = "weekly" -> t - Weekday(t)
    [] period = "monthly" -> MonthStart(YearOf(t), MonthOf(t))
    [] period = "yearly" -> YearStart(YearOf(t))
    [] OTHER -> DatetimeMin

(***************************************************************************)
(* Values.  None is Python's None (and the empty string: both are falsy).  *)
(* Category codes are dotted paths, kept as their sequence of segments; an *)
(* MCC is a one-segment code.                                              *)
(***************************************************************************)
None == <<>>

FoodAndDrink == <<"food_and_drink">>

Restaurants == <<"food_and_drink", "restaurants">>

Gambling == <<"gambling">>

\* merchant_category.split('.')[0]
RootCategory(code) == <<code[1]>>

\* dict.get(key, default)
Get(d, k, default) == IF k \in DOMAIN d THEN d[k] ELSE default

\* d | {k: v}
Put(d, k, v) == [x \in (DOMAIN d) \cup {k} |-> IF x = k THEN v ELSE d[x]]

EmptyDict == [x \in {} |-> 0]

(***************************************************************************)
(* VirtualCardService.update_spend: one (scope, period) counter.  A        *)
(* missing counter reads as amount "0", last_reset 2000-01-01.             *)
(***************************************************************************)
DefaultPeriodData == [amount |-> 0, last_reset |-> DefaultReset]

CommitPeriod(spend, period, amount, t) ==
  LET period_data == Get(spend, period, DefaultPeriodData)
      expired == is_limit_period_expired(period_data.last_reset, period, t)
      period_spend == IF expired THEN 0 ELSE period_data.amount
      last_reset == IF expired THEN get_period_start(period, t) ELSE period_data.last_reset
  IN [amount |-> period_spend + amount, last_reset |-> last_reset]

\* the loop over the keys of one scope's limits
CommitScope(limits, spend, amount, t) ==
  [p \in (DOMAIN spend) \cup (DOMAIN limits) |->
     IF p \in DOMAIN limits THEN CommitPeriod(spend, p, amount, t) ELSE spend[p]]

(***************************************************************************)
(* VirtualCardService.update_spend, with the row update it ends in.        *)
(***************************************************************************)
\* a variant that updates the counters whatever `success` is
update_spend_ignores_success(c, amount, merchant_category, success, t) ==
  [c EXCEPT !.total_spend = c.total_spend + amount,
            !.total_transaction_count = c.total_transaction_count + 1,
            !.last_transaction_at = t,
            !.current_spend = CommitScope(c.spending_limits, c.current_spend, amount, t)]

update_spend(c, amount, merchant_category, success, t) ==
  LET category == RootCategory(merchant_category)
      stats == [c EXCEPT
                  !.total_spend = IF success THEN c.total_spend + amount ELSE c.total_spend,
                  !.total_transaction_count = c.total_transaction_count + (IF success THEN 1 ELSE 0),
                  !.failed_transaction_count = c.failed_transaction_count + (IF success THEN 0 ELSE 1),
                  !.last_transaction_at = t]
      overall == [stats EXCEPT
                  !.current_spend = CommitScope(c.spending_limits, c.current_spend, amount, t)]
      withCategory ==
        IF merchant_category # None /\ category \in DOMAIN c.category_spending_limits
        THEN [overall EXCEPT
                !.category_current_spend =
                   Put(c.category_current_spend, category,
                       CommitScope(c.category_spending_limits[category],
                                   Get(c.category_current_spend, category, EmptyDict), amount, t)),
                !.category_transaction_counts =
                   Put(c.category_transaction_counts, category,
                       Get(c.category_transaction_counts, category, 0) + 1)]
        ELSE overall
      withSubcategory ==
        IF merchant_category # None /\ merchant_category \in DOMAIN c.subcategory_spending_limits
        THEN [withCategory EXCEPT
                !.subcategory_current_spend =
                   Put(c.subcategory_current_spend, merchant_category,
                       CommitScope(c.subcategory_spending_limits[merchant_category],
                                   Get(c.subcategory_current_spend, merchant_category, EmptyDict), amount, t)),
                !.subcategory_transaction_counts =
                   Put(c.subcategory_transaction_counts, merchant_category,
                       Get(c.subcategory_transaction_counts, merchant_category, 0) + 1)]
        ELSE withCategory
  IN IF success THEN withSubcategory ELSE stats

(***************************************************************************)
(* Text.  A string is the sequence of its characters.                      *)
(***************************************************************************)
LowerOf == [c \in {"A", "B", "C", "E", "F", "N", "R", "T"} |->
              CASE c = "A" -> "a" [] c = "B" -> "b" [] c = "C" -> "c" [] c = "E" -> "e"
                [] c = "F" -> "f" [] c = "N" -> "n" [] c = "R" -> "r" [] c = "T" -> "t"]

AlphaNum == {"a", "b", "c", "e", "f", "n", "o", "r", "t", "0", "1", "2", "3"}

Whitespace == {" "}

\* str.lower()
Lower(text) == [i \in 1..Len(text) |-> IF text[i] \in DOMAIN LowerOf THEN LowerOf[text[i]] ELSE text[i]]

\* re.sub(r'[^a-z0-9\s]', '', text)
RECURSIVE StripSpecial(_)
StripSpecial(text) ==
  IF text = <<>> THEN <<>>
  ELSE IF Head(text) \in AlphaNum \cup Whitespace
       THEN <<Head(text)>> \o StripSpecial(Tail(text))
       ELSE StripSpecial(Tail(text))

\* ' '.join(text.split()): no leading or trailing blank, single blanks between words
RECURSIVE CollapseSpaces(_, _)
CollapseSpaces(text, pendingSpace) ==
  IF text = <<>> THEN <<>>
  ELSE IF Head(text) \in Whitespace
       THEN CollapseSpaces(Tail(text), TRUE)
       ELSE (IF pendingSpace THEN <<" ">> ELSE <<>>) \o <<Head(text)>>
            \o CollapseSpaces(Tail(text), FALSE)

RECURSIVE DropLeadingSpace(_)
DropLeadingSpace(text) ==
  IF text # <<>> /\ Head(text) \in Whitespace THEN DropLeadingSpace(Tail(text)) ELSE text

\* MerchantCategoryService._normalize_text
normalize_text(text) == CollapseSpaces(DropLeadingSpace(StripSpecial(Lower(text))), FALSE)

\* `word in search_text`
Contains(text, word) ==
  \E i \in 0..(Len(text) - Len(word)) : SubSeq(text, i + 1, i + Len(word)) = word

\* longest common subsequence of a[1..i] and b[1..j]
RECURSIVE LCS(_, _, _, _)
LCS(a, b, i, j) ==
  IF i = 0 \/ j = 0 THEN 0
  ELSE IF a[i] = b[j] THEN 1 + LCS(a, b, i - 1, j - 1)
  ELSE LET x == LCS(a, b, i - 1, j)
           y == LCS(a, b, i, j - 1)
       IN IF x >= y THEN x ELSE y

\* fuzz.ratio: 100 * 2 * matches / (len(a) + len(b)), rounded; 100 for two empty strings
fuzz_ratio(a, b) ==
  LET total == Len(a) + Len(b)
  IN IF total = 0 THEN 100
     ELSE (200 * LCS(a, b, Len(a), Len(b)) + (total \div 2)) \div total

\* MerchantCategoryService._calculate_similarity
calculate_similarity(text1, text2) == fuzz_ratio(normalize_text(text1), normalize_text(text2))

(***************************************************************************)
(* The category reference data the classifier reads, in the order the      *)
(* query returns it.                                                       *)
(***************************************************************************)
Categories == <<
  [code |-> FoodAndDrink, name |-> "Food and Drink", mcc_codes |-> {<<"5812">>},
   keywords |-> {<<"c", "a", "f", "e">>}, excluded_words |-> {<<"b", "a", "r">>},
   typical_amount_range |-> [min |-> 1, max |-> 2],
   common_payment_methods |-> {"card_present"}, restricted_jurisdictions |-> {}],
  [code |-> Restaurants, name |-> "Restaurants", mcc_codes |-> {<<"5811">>},
   keywords |-> {<<"c", "a", "f", "e">>, <<"b", "a", "r">>}, excluded_words |-> {},
   typical_amount_range |-> [min |-> 0, max |-> 0],
   common_payment_methods |-> {}, restricted_jurisdictions |-> {}],
  [code |-> Gambling, name |-> "Gambling", mcc_codes |-> {<<"7995">>},
   keywords |-> {<<"b", "e", "t">>}, excluded_words |-> {},
   typical_amount_range |-> [min |-> 0, max |-> 0],
   common_payment_methods |-> {"online"}, restricted_jurisdictions |-> {"US"}] >>

NoCategory == 0

AttributeError == 0 - 1

\* MerchantCategoryService.get_category_by_mcc: the first row whose mcc_codes holds mcc
get_category_by_mcc(mcc) ==
  LET hits == {i \in 1..Len(Categories) : mcc \in Categories[i].mcc_codes}
  IN IF hits = {} THEN NoCategory ELSE CHOOSE i \in hits : \A j \in hits : i <= j

Max(S) == CHOOSE x \in S : \A y \in S : x >= y

\* one category's score, times ten (the keyword share is 0.4 * ratio); -1 when the
\* category is skipped by `continue`
CategoryScore(category, search_text, transaction_amount, payment_method, country_code) ==
  LET max_keyword_score ==
        Max({0} \cup {calculate_similarity(k, search_text) : k \in category.keywords})
      has_excluded_word == \E w \in category.excluded_words : Contains(search_text, w)
      min_amount == category.typical_amount_range.min
      max_amount == category.typical_amount_range.max
      amountPart ==
        IF transaction_amount # 0 /\ min_amount # 0 /\ max_amount # 0
        THEN (IF min_amount <= transaction_amount /\ transaction_amount <= max_amount THEN 200
              ELSE IF 2 * transaction_amount < min_amount \/ transaction_amount > 2 * max_amount
                   THEN 0 - 100 ELSE 0)
        ELSE 0
      paymentPart ==
        IF payment_method # "" /\ payment_method \in category.common_payment_methods
        THEN 200 ELSE 0
      restricted == country_code # "" /\ country_code \in category.restricted_jurisdictions
      geoPart == IF country_code # "" /\ category.restricted_jurisdictions # {} THEN 200 ELSE 0
  IN IF has_excluded_word \/ restricted THEN 0 - 1
     ELSE 4 * max_keyword_score + amountPart + paymentPart + geoPart

\* a variant of the scoring loop in which a later category with an equal score
\* replaces the earlier one
RECURSIVE ScoreLoop_last_wins(_, _, _, _, _, _, _)
ScoreLoop_last_wins(i, best_match, best_score, search_text, amount, payment_method, country_code) ==
  IF i > Len(Categories) THEN <<best_match, best_score>>
  ELSE LET score == CategoryScore(Categories[i], search_text, amount, payment_method, country_code)
       IN IF score # 0 - 1 /\ score > 0 /\ score >= best_score
          THEN ScoreLoop_last_wins(i + 1, i, score, search_text, amount, payment_method, country_code)
          ELSE ScoreLoop_last_wins(i + 1, best_match, best_score, search_text, amount, payment_method, country_code)

\* the scoring loop from category i on: <<best_match, best_score>>
RECURSIVE ScoreLoop(_, _, _, _, _, _, _)
ScoreLoop(i, best_match, best_score, search_text, amount, payment_method, country_code) ==
  IF i > Len(Categories) THEN <<best_match, best_score>>
  ELSE LET score == CategoryScore(Categories[i], search_text, amount, payment_method, country_code)
       IN IF score # 0 - 1 /\ score > best_score
          THEN ScoreLoop(i + 1, i, score, search_text, amount, payment_method, country_code)
          ELSE ScoreLoop(i + 1, best_match, best_score, search_text, amount, payment_method, country_code)

(***************************************************************************)
(* MerchantCategoryService.map_merchant_to_category: the index of the      *)
(* category returned, NoCategory for None, AttributeError when the text to *)
(* normalize is None.  "" stands for an absent payment method or country.  *)
(***************************************************************************)
\* lines 77-81: the normalized text the categories are scored against
SearchText(merchant_name, merchant_description) ==
  normalize_text(IF merchant_description # None
                 THEN (IF merchant_name = None THEN <<"N", "o", "n", "e">> ELSE merchant_name)
                      \o <<" ">> \o merchant_description
                 ELSE merchant_name)

\* a variant in which the text score outranks the MCC
map_merchant_to_category_text_first(merchant_name, merchant_description, mcc, transaction_amount, payment_method, country_code) ==
  LET mcc_category == IF mcc # None THEN get_category_by_mcc(mcc) ELSE NoCategory
      search_text == SearchText(merchant_name, merchant_description)
      best == ScoreLoop(1, NoCategory, 0, search_text, transaction_amount, payment_method, country_code)
  IN IF merchant_name = None /\ merchant_description = None
     THEN (IF mcc_category # NoCategory THEN mcc_category ELSE AttributeError)
     ELSE IF best[2] >= 400 THEN best[1] ELSE mcc_category

\* a variant whose category rows are used up by the call that read them: every
\* second call finds none
map_merchant_to_category_once(merchant_name, merchant_description, mcc, transaction_amount, payment_method, country_code) ==
  LET mcc_category == IF mcc # None THEN get_category_by_mcc(mcc) ELSE NoCategory
      search_text == SearchText(merchant_name, merchant_description)
      best == ScoreLoop(1, NoCategory, 0, search_text, transaction_amount, payment_method, country_code)
  IN IF calls % 2 = 1 THEN NoCategory
     ELSE IF mcc_category # NoCategory THEN mcc_category
     ELSE IF merchant_name = None /\ merchant_description = None THEN AttributeError
     ELSE IF best[2] >= 400 THEN best[1] ELSE NoCategory

map_merchant_to_category(merchant_name, merchant_description, mcc, transaction_amount, payment_method, country_code) ==
  LET mcc_category == IF mcc # None THEN get_category_by_mcc(mcc) ELSE NoCategory
      search_text == SearchText(merchant_name, merchant_description)
      best == ScoreLoop(1, NoCategory, 0, search_text, transaction_amount, payment_method, country_code)
  IN IF mcc_category # NoCategory THEN mcc_category
     ELSE IF merchant_name = None /\ merchant_description = None THEN AttributeError
     ELSE IF best[2] >= 400 THEN best[1] ELSE NoCategory

(***************************************************************************)
(* What a call of validate_transaction ends in: it returns ("ok"), raises  *)
(* HTTPException with a detail ("http"), or raises another exception       *)
(* ("error").  `check` names the check that ended the call, `period` the   *)
(* period of a limit check.                                                *)
(***************************************************************************)
Ok == [kind |-> "ok", detail |-> <<>>, check |-> "", period |-> "", limit |-> 0]

Http(detail, check) == [kind |-> "http", detail |-> detail, check |-> check, period |-> "", limit |-> 0]

LimitExceeded(detail, check, period, limit) ==
  [kind |-> "http", detail |-> detail, check |-> check, period |-> period, limit |-> limit]

Raised(exc, check, period) ==
  [kind |-> "error", detail |-> <<exc>>, check |-> check, period |-> period, limit |-> 0]

(***************************************************************************)
(* VirtualCardService._validate_spend_against_limit.  A stored amount is   *)
(* the float update_spend wrote, and float + Decimal raises TypeError.     *)
(***************************************************************************)
validate_spend_against_limit(current_spend, spending_limits, amount, period, check) ==
  LET limit == Get(spending_limits, period, 0)
  IN IF limit <= 0 THEN Ok
     ELSE IF period \in DOMAIN current_spend THEN Raised("TypeError", check, period)
     ELSE IF 0 + amount > limit
          THEN LimitExceeded(<<"Transaction would exceed", period, "spending limit of">>,
                             check, period, limit)
          ELSE Ok

\* `for period in SpendingLimitPeriod`: the first check that does not pass ends the call
RECURSIVE ValidateScope(_, _, _, _, _)
ValidateScope(i, current_spend, spending_limits, amount, check) ==
  IF i > Len(PeriodOrder) THEN Ok
  ELSE LET r == validate_spend_against_limit(current_spend, spending_limits, amount,
                                             PeriodOrder[i], check)
       IN IF r.kind # "ok" THEN r
          ELSE ValidateScope(i + 1, current_spend, spending_limits, amount, check)

(***************************************************************************)
(* validate_transaction, "Check spending limits" at its end: the loop over *)
(* card.spending_limits (taken in the enum's order).  current_spend[p] is  *)
(* the dict update_spend wrote, and Decimal(str(dict)) raises              *)
(* InvalidOperation; last_spend_reset is written nowhere.                  *)
(***************************************************************************)
RECURSIVE FinalLimitCheck(_, _, _, _)
FinalLimitCheck(i, c, amount, t) ==
  IF i > Len(PeriodOrder) THEN Ok
  ELSE LET period == PeriodOrder[i]
           last_reset == Get(c.last_spend_reset, period, DefaultReset)
           stored == 0   \* current_spend.get(period_str, 0) of a period with no counter
           period_spend == IF is_limit_period_expired(last_reset, period, t) THEN 0 ELSE stored
       IN IF period \notin DOMAIN c.spending_limits THEN FinalLimitCheck(i + 1, c, amount, t)
          ELSE IF period \in DOMAIN c.current_spend
               THEN Raised("InvalidOperation", "final_limit", period)
          ELSE IF period_spend + amount > c.spending_limits[period]
               THEN LimitExceeded(<<"Transaction would exceed", period, "spending limit">>,
                                  "final_limit", period, c.spending_limits[period])
          ELSE FinalLimitCheck(i + 1, c, amount, t)

\* MerchantCategoryService.validate_category_rules: result["allowed"]
category_rules_allowed(category, country_code) ==
  ~(category.restricted_jurisdictions # {} /\ country_code \in category.restricted_jurisdictions)

(***************************************************************************)
(* VirtualCardService.validate_transaction(card, amount, ...) at instant t. *)
(* The checks run in the order of the code; the first that fails ends the  *)
(* call.  ValidateAfterStatus is the part after the card status check.     *)
(***************************************************************************)
ValidateAfterStatus(c, req, t) ==
  LET amount == req.amount
      overall == ValidateScope(1, c.current_spend, c.spending_limits, amount, "overall_limit")
      mapped == map_merchant_to_category(req.merchant_name, req.merchant_description,
                                         req.merchant_category, amount, req.payment_method,
                                         req.country_code)
      mapped_category == Categories[mapped]
      category_code == RootCategory(mapped_category.code)
      categoryCheck ==
        IF category_code \in DOMAIN c.category_spending_limits
        THEN ValidateScope(1, Get(c.category_current_spend, category_code, EmptyDict),
                           c.category_spending_limits[category_code], amount, "category_limit")
        ELSE Ok
      subcategoryCheck ==
        IF mapped_category.code \in DOMAIN c.subcategory_spending_limits
        THEN ValidateScope(1, Get(c.subcategory_current_spend, mapped_category.code, EmptyDict),
                           c.subcategory_spending_limits[mapped_category.code], amount,
                           "subcategory_limit")
        ELSE Ok
      final == FinalLimitCheck(1, c, amount, t)
  IN IF c.balance < amount THEN Http(<<"Insufficient funds">>, "balance")
     ELSE IF overall.kind # "ok" THEN overall
     ELSE IF mapped = AttributeError THEN Raised("AttributeError", "classify", "")
     ELSE IF mapped # NoCategory /\ categoryCheck.kind # "ok" THEN categoryCheck
     ELSE IF mapped # NoCategory /\ subcategoryCheck.kind # "ok" THEN subcategoryCheck
     ELSE IF req.is_online /\ ~c.allow_online_transactions
          THEN Http(<<"Online transactions not allowed">>, "online")
     ELSE IF req.is_contactless /\ ~c.allow_contactless_transactions
          THEN Http(<<"Contactless transactions not allowed">>, "contactless")
     ELSE IF req.is_cash_withdrawal /\ ~c.allow_cash_withdrawals
          THEN Http(<<"Cash withdrawals not allowed">>, "cash")
     ELSE IF mapped # NoCategory
             /\ ~category_rules_allowed(mapped_category,
                                        IF req.country_code # "" THEN req.country_code ELSE "US")
          THEN Http(<<"Transaction restricted">>, "category_rules")
     ELSE IF mapped # NoCategory /\ c.allowed_merchant_categories # {}
             /\ mapped_category.code \notin c.allowed_merchant_categories
          THEN Http(<<"Merchant category", mapped_category.name, "not allowed">>, "mapped_allowed")
     ELSE IF mapped # NoCategory /\ c.blocked_merchant_categories # {}
             /\ mapped_category.code \in c.blocked_merchant_categories
          THEN Http(<<"Merchant category", mapped_category.name, "is blocked">>, "mapped_blocked")
     ELSE IF req.is_international /\ ~c.allow_international_transactions
          THEN Http(<<"International transactions not allowed">>, "international")
     ELSE IF req.merchant_id # "" /\ c.blocked_merchants # {} /\ req.merchant_id \in c.blocked_merchants
          THEN Http(<<"Merchant is blocked">>, "merchant_blocked")
     ELSE IF req.merchant_id # "" /\ c.allowed_merchants # {} /\ req.merchant_id \notin c.allowed_merchants
          THEN Http(<<"Merchant is not in allowed list">>, "merchant_allowed")
     ELSE IF req.merchant_category # None /\ c.blocked_merchant_categories # {}
             /\ req.merchant_category \in c.blocked_merchant_categories
          THEN Http(<<"Merchant category is blocked">>, "mcc_blocked")
     ELSE IF req.merchant_category # None /\ c.allowed_merchant_categories # {}
             /\ req.merchant_category \notin c.allowed_merchant_categories
          THEN Http(<<"Merchant category is not in allowed list">>, "mcc_allowed")
     ELSE IF req.country_code # "" /\ c.blocked_countries # {} /\ req.country_code \in c.blocked_countries
          THEN Http(<<"Country is blocked">>, "country_blocked")
     ELSE IF req.country_code # "" /\ c.allowed_countries # {} /\ req.country_code \notin c.allowed_countries
          THEN Http(<<"Country is not in allowed list">>, "country_allowed")
     ELSE final

\* a variant that looks at the card status after every other check
validate_transaction_status_last(c, req, t) ==
  LET rest == ValidateAfterStatus(c, req, t)
  IN IF rest.kind # "ok" THEN rest
     ELSE IF c.status # "active" THEN Http(<<"Card is", c.status>>, "status")
     ELSE Ok

\* a variant in which an allow-listed value is exempt from the block-list
validate_transaction_allow_overrides(c, req, t) ==
  LET exempt == [c EXCEPT !.blocked_merchants = @ \ c.allowed_merchants,
                          !.blocked_merchant_categories = @ \ c.allowed_merchant_categories,
                          !.blocked_countries = @ \ c.allowed_countries]
  IN IF c.status # "active" THEN Http(<<"Card is", c.status>>, "status")
     ELSE ValidateAfterStatus(exempt, req, t)

\* the checks of validate_transaction in the order the code makes them
GateOrder ==
  <<"status", "balance", "overall_limit", "classify", "category_limit", "subcategory_limit",
    "online", "contactless", "cash", "category_rules", "mapped_allowed", "mapped_blocked",
    "international", "merchant_blocked", "merchant_allowed", "mcc_blocked", "mcc_allowed",
    "country_blocked", "country_allowed", "final_limit">>

validate_transaction(c, req, t) ==
  IF c.status # "active" THEN Http(<<"Card is", c.status>>, "status")
  ELSE ValidateAfterStatus(c, req, t)

(***************************************************************************)
(* TransactionValidationService: the registered rules, the rule functions  *)
(* and the aggregation of their verdicts.  A scenario `sc` holds what a    *)
(* call reads: its arguments (amount, merchant, merchant_category, agent,  *)
(* context), the results of the queries the rules make (history) and the   *)
(* hour of the clock.  A numeric column that is None is NoneNum where the  *)
(* code does arithmetic on it and 0 where it only tests its truth.         *)
(***************************************************************************)
NoneNum == 0 - 1

\* what evaluating a rule function ends in
Verdict(risk_factors, requires_review) ==
  [valid |-> risk_factors = {}, requires_review |-> requires_review,
   risk_factors |-> risk_factors, raised |-> FALSE]

RuleRaised == [valid |-> FALSE, requires_review |-> FALSE, risk_factors |-> {}, raised |-> TRUE]

validate_spending_limits(sc) ==
  LET agent == sc.agent
      daily == agent.daily_spend_limit # 0
               /\ agent.current_daily_spend + sc.amount > agent.daily_spend_limit
      monthly == agent.monthly_spend_limit # 0
                 /\ agent.current_monthly_spend + sc.amount > agent.monthly_spend_limit
      single == agent.max_transaction_amount # 0 /\ sc.amount > agent.max_transaction_amount
      risk_factors == (IF daily THEN {"daily_limit_exceeded"} ELSE {})
                      \cup (IF monthly THEN {"monthly_limit_exceeded"} ELSE {})
                      \cup (IF single THEN {"transaction_amount_exceeded"} ELSE {})
      requires_review == agent.require_approval_above # 0 /\ sc.amount > agent.require_approval_above
  IN IF \/ (agent.daily_spend_limit # 0 /\ agent.current_daily_spend = NoneNum)
        \/ (agent.monthly_spend_limit # 0 /\ agent.current_monthly_spend = NoneNum)
     THEN RuleRaised   \* None + Decimal raises TypeError
     ELSE Verdict(risk_factors, requires_review)

validate_merchant_category(sc) ==
  LET agent == sc.agent
      risk_factors ==
        (IF sc.merchant_category \in agent.blocked_merchant_categories
         THEN {"blocked_category"} ELSE {})
        \cup (IF agent.allowed_merchant_categories # {}
                 /\ sc.merchant_category \notin agent.allowed_merchant_categories
              THEN {"category_not_allowed"} ELSE {})
        \cup (IF sc.merchant \in agent.blocked_merchants THEN {"blocked_merchant"} ELSE {})
        \cup (IF agent.allowed_merchants # {} /\ sc.merchant \notin agent.allowed_merchants
              THEN {"merchant_not_allowed"} ELSE {})
  IN Verdict(risk_factors,
             "blocked_category" \in risk_factors \/ "blocked_merchant" \in risk_factors)

validate_transaction_velocity(sc) ==
  LET risk_factors ==
        (IF sc.history.recent_count > 10 THEN {"high_transaction_velocity"} ELSE {})
        \cup (IF sc.history.merchant_count > 5 THEN {"unusual_merchant_frequency"} ELSE {})
  IN Verdict(risk_factors, Cardinality(risk_factors) > 1)

validate_behavior_pattern(sc) ==
  LET avg_amount == IF sc.history.avg_amount # 0 THEN sc.history.avg_amount ELSE sc.amount
      risk_factors ==
        (IF sc.amount > avg_amount * 3 THEN {"amount_anomaly"} ELSE {})
        \cup (IF sc.history.call_count > 0
                 /\ 10 * sc.history.success_count < 7 * sc.history.call_count
              THEN {"low_success_rate"} ELSE {})
        \cup (IF sc.context.present /\ sc.context.user_intent_words = 0
              THEN {"missing_user_intent"} ELSE {})
        \cup (IF sc.context.present /\ ~sc.context.conversation_context
              THEN {"missing_conversation_context"} ELSE {})
  IN Verdict(risk_factors, "amount_anomaly" \in risk_factors)

\* `now` is timezone-aware and the created_at read from the DateTime column is
\* naive: their difference raises TypeError
validate_time_based(sc) ==
  LET risk_factors ==
        (IF sc.hour >= 23 \/ sc.hour < 5 THEN {"unusual_hours"} ELSE {})
        \cup (IF sc.context.present /\ sc.context.merchant_hours = "closed"
              THEN {"outside_merchant_hours"} ELSE {})
  IN IF sc.history.last_tx # "none" THEN RuleRaised
     ELSE Verdict(risk_factors, "outside_merchant_hours" \in risk_factors)

validate_geographic(sc) ==
  LET current_location == sc.context.merchant_location
      recent_locations == sc.history.recent_locations
      unusual == recent_locations # <<>>
                 /\ \A i \in 1..Len(recent_locations) : recent_locations[i] # current_location
      travel == /\ Len(recent_locations) > 1
                /\ recent_locations[Len(recent_locations)] # current_location
                /\ sc.history.last_location_within_hour
      risk_factors == (IF unusual THEN {"unusual_location"} ELSE {})
                      \cup (IF travel THEN {"impossible_travel"} ELSE {})
  IN IF ~sc.context.present \/ current_location = ""
     THEN Verdict({"missing_location_data"}, TRUE)
     ELSE Verdict(risk_factors, "impossible_travel" \in risk_factors)

validate_sequence(sc) ==
  LET purpose == sc.context.transaction_purpose
      risk_factors ==
        IF purpose = "hotel_payment"
        THEN (IF sc.history.reservation_count = 0 THEN {"missing_reservation"} ELSE {})
        ELSE IF purpose = "subscription"
        THEN (IF sc.history.subscription_count # 0 THEN {"duplicate_subscription"} ELSE {})
        ELSE {}
  IN IF ~sc.context.present \/ purpose = "" THEN Verdict({}, FALSE)
     ELSE Verdict(risk_factors, risk_factors # {})

validate_conversation_context(sc) ==
  LET context == sc.context
      missing_fields == context.conversation_id = "" \/ context.user_intent_words = 0
                        \/ context.transaction_purpose = "" \/ context.previous_messages = 0
      risk_factors ==
        (IF context.user_intent_words < 3 THEN {"unclear_user_intent"} ELSE {})
        \cup (IF missing_fields THEN {"missing_context_fields"} ELSE {})
        \cup (IF context.has_budget /\ 5 * sc.amount > 6 * context.budget_mentioned
              THEN {"amount_exceeds_discussed"} ELSE {})
        \cup (IF context.previous_messages # 0 /\ context.previous_messages < 2
              THEN {"insufficient_conversation"} ELSE {})
        \cup (IF context.previous_messages # 0 /\ ~context.price_discussed
              THEN {"price_not_discussed"} ELSE {})
  IN IF ~context.present
     THEN Verdict({"missing_context"}, TRUE)
     ELSE Verdict(risk_factors, Cardinality(risk_factors) > 2)

\* rule.validation_fn(db, agent, amount, merchant, merchant_category, context); a
\* function registered from outside accepts, rejects or flags every transaction
RuleOutcome(validation_fn, sc) ==
  CASE validation_fn = "_validate_spending_limits" -> validate_spending_limits(sc)
    [] validation_fn = "_validate_merchant_category" -> validate_merchant_category(sc)
    [] validation_fn = "_validate_transaction_velocity" -> validate_transaction_velocity(sc)
    [] validation_fn = "_validate_behavior_pattern" -> validate_behavior_pattern(sc)
    [] validation_fn = "_validate_time_based" -> validate_time_based(sc)
    [] validation_fn = "_validate_geographic" -> validate_geographic(sc)
    [] validation_fn = "_validate_sequence" -> validate_sequence(sc)
    [] validation_fn = "_validate_conversation_context" -> validate_conversation_context(sc)
    [] validation_fn = "accept" -> Verdict({}, FALSE)
    [] validation_fn = "reject" -> Verdict({"rejected"}, FALSE)
    [] OTHER -> RuleRaised

ValidationRule(name, validation_fn, risk_score) ==
  [name |-> name, validation_fn |-> validation_fn, risk_score |-> risk_score]

\* TransactionValidationService._register_default_rules: self.rules in insertion order
DefaultRules ==
  <<ValidationRule("spending_limit", "_validate_spending_limits", 40),
    ValidationRule("merchant_category", "_validate_merchant_category", 30),
    ValidationRule("transaction_velocity", "_validate_transaction_velocity", 25),
    ValidationRule("behavior_pattern", "_validate_behavior_pattern", 35),
    ValidationRule("time_based", "_validate_time_based", 20),
    ValidationRule("geographic", "_validate_geographic", 30),
    ValidationRule("sequence", "_validate_sequence", 25),
    ValidationRule("conversation_context", "_validate_conversation_context", 35)>>

\* TransactionValidationService.register_rule: self.rules[name] = ValidationRule(...)
register_rule(rs, name, validation_fn, risk_score) ==
  IF \E i \in 1..Len(rs) : rs[i].name = name
  THEN [i \in 1..Len(rs) |-> IF rs[i].name = name
                             THEN ValidationRule(name, validation_fn, risk_score) ELSE rs[i]]
  ELSE Append(rs, ValidationRule(name, validation_fn, risk_score))

\* TransactionValidationService._calculate_risk_level
calculate_risk_level(risk_score) ==
  IF risk_score < 30 THEN "low"
  ELSE IF risk_score < 50 THEN "medium"
  ELSE IF risk_score < 70 THEN "high"
  ELSE "critical"

\* the loop `for rule in self.rules.values()` from rule i on, over the outcomes of
\* the rule functions: <<total_risk_score, requires_review, validation_results>>
\* the risk factors in the order in which the rule functions append them
FactorOrder ==
  <<"daily_limit_exceeded", "monthly_limit_exceeded", "transaction_amount_exceeded",
    "blocked_category", "category_not_allowed", "blocked_merchant", "merchant_not_allowed",
    "high_transaction_velocity", "unusual_merchant_frequency",
    "amount_anomaly", "low_success_rate", "missing_user_intent", "missing_conversation_context",
    "unusual_hours", "outside_merchant_hours",
    "missing_location_data", "unusual_location", "impossible_travel",
    "missing_reservation", "duplicate_subscription",
    "missing_context", "unclear_user_intent", "missing_context_fields",
    "amount_exceeds_discussed", "insufficient_conversation", "price_not_discussed",
    "rejected", "flipped">>

\* result["risk_factors"] of a verdict, as the list the function built
FactorList(risk_factors) ==
  LET Listed(f) == f \in risk_factors
  IN SelectSeq(FactorOrder, Listed)

\* risk_factors.extend(...) over the rules from i on
RECURSIVE ExtendFactors(_, _, _)
ExtendFactors(rs, outcomes, i) ==
  IF i > Len(rs) THEN <<>>
  ELSE (IF ~outcomes[i].raised /\ ~outcomes[i].valid
        THEN FactorList(outcomes[i].risk_factors) ELSE <<>>)
       \o ExtendFactors(rs, outcomes, i + 1)

\* a variant in which the first rule that raises ends the loop
RECURSIVE RunRules_abort(_, _, _, _, _, _)
RunRules_abort(i, rs, outcomes, total_risk_score, requires_review, validation_results) ==
  IF i > Len(rs) THEN <<total_risk_score, requires_review, validation_results>>
  ELSE LET result == outcomes[i]
       IN IF result.raised
          THEN <<total_risk_score, TRUE,
                 Append(validation_results, [valid |-> FALSE, requires_review |-> TRUE])>>
          ELSE RunRules_abort(i + 1, rs, outcomes,
                              IF ~result.valid THEN total_risk_score + rs[i].risk_score
                              ELSE total_risk_score,
                              requires_review \/ (~result.valid /\ result.requires_review),
                              Append(validation_results,
                                     [valid |-> result.valid, requires_review |-> result.requires_review]))

RECURSIVE RunRules(_, _, _, _, _, _)
RunRules(i, rs, outcomes, total_risk_score, requires_review, validation_results) ==
  IF i > Len(rs) THEN <<total_risk_score, requires_review, validation_results>>
  ELSE LET result == outcomes[i]
       IN IF result.raised
          THEN RunRules(i + 1, rs, outcomes, total_risk_score, TRUE,
                        Append(validation_results, [valid |-> FALSE, requires_review |-> TRUE]))
          ELSE RunRules(i + 1, rs, outcomes,
                        IF ~result.valid THEN total_risk_score + rs[i].risk_score
                        ELSE total_risk_score,
                        requires_review \/ (~result.valid /\ result.requires_review),
                        Append(validation_results,
                               [valid |-> result.valid, requires_review |-> result.requires_review]))

\* a variant that decides on the risk score alone
aggregate_score_only(rs, outcomes) ==
  LET run == RunRules(1, rs, outcomes, 0, FALSE, <<>>)
  IN [valid |-> run[1] < 70, risk_score |-> run[1],
      risk_level |-> calculate_risk_level(run[1]),
      risk_factors |-> ExtendFactors(rs, outcomes, 1), requires_review |-> run[2],
      validation_results |-> run[3]]

\* TransactionValidationService.validate_transaction, given what each rule function
\* ends in
aggregate(rs, outcomes) ==
  LET run == RunRules(1, rs, outcomes, 0, FALSE, <<>>)
  IN [valid |-> run[1] < 70 /\ ~run[2], risk_score |-> run[1],
      risk_level |-> calculate_risk_level(run[1]),
      risk_factors |-> ExtendFactors(rs, outcomes, 1), requires_review |-> run[2],
      validation_results |-> run[3]]

RuleOutcomes(rs, sc) == [i \in 1..Len(rs) |-> RuleOutcome(rs[i].validation_fn, sc)]

(***************************************************************************)
(* State.                                                                  *)
(*   now    the wall clock, in days since 2024-01-01                       *)
(*   card   the card's row                                                 *)
(*   svc    a caller of the service that authorizes one transaction at a   *)
(*          time: validate_transaction, then update_spend                  *)
(*   rp     the calls of create_new_transaction in flight, each with the   *)
(*          card object it loaded                                          *)
(*   ev     the call that made the last step, with the row before it       *)
(*   rules  the rules registered with the transaction validator            *)
(*   calls, ticks   how many calls were made and how often the clock moved *)
(***************************************************************************)
NoTime == 0 - 1

\* models/virtual_card.py column defaults; limits, balance and status are set by card management
NewCard(status, balance, limits, category_limits, subcategory_limits) ==
  [status |-> status, balance |-> balance,
   spending_limits |-> limits, current_spend |-> EmptyDict, last_spend_reset |-> EmptyDict,
   category_spending_limits |-> category_limits, category_current_spend |-> EmptyDict,
   subcategory_spending_limits |-> subcategory_limits, subcategory_current_spend |-> EmptyDict,
   category_transaction_counts |-> EmptyDict, subcategory_transaction_counts |-> EmptyDict,
   allowed_merchant_categories |-> {}, blocked_merchant_categories |-> {},
   allowed_merchants |-> {}, blocked_merchants |-> {},
   allowed_countries |-> {}, blocked_countries |-> {},
   allow_online_transactions |-> TRUE, allow_contactless_transactions |-> TRUE,
   allow_cash_withdrawals |-> FALSE, allow_international_transactions |-> FALSE,
   last_transaction_at |-> NoTime, failed_transaction_count |-> 0,
   total_transaction_count |-> 0, total_spend |-> 0,
   freeze_reason |-> "", auto_unfreeze_at |-> NoTime]

\* a TransactionCreate as create_new_transaction hands it to validate_transaction
Request(amount, type, merchant_category, merchant_name) ==
  [amount |-> amount, type |-> type, merchant_id |-> "", merchant_category |-> merchant_category,
   merchant_name |-> merchant_name, merchant_description |-> None, country_code |-> "",
   is_online |-> FALSE, is_contactless |-> FALSE, is_cash_withdrawal |-> (type = "withdrawal"),
   is_international |-> FALSE, payment_method |-> ""]

OneLimit(period, limit) == [p \in {period} |-> limit]

\* the limit configurations of the cards under test
LimitConfigs ==
  {EmptyDict} \cup {OneLimit(p, 3) : p \in SpendingLimitPeriod}
  \cup {OneLimit("monthly", 0), OneLimit("daily", 0 - 2)}
  \cup {[p \in {"daily", "total"} |-> IF p = "daily" THEN 2 ELSE 4]}

CategoryLimits == [k \in {FoodAndDrink} |-> OneLimit("daily", 3)]

SubcategoryLimits == [k \in {Restaurants} |-> OneLimit("monthly", 2)]

LedgerCards ==
  {NewCard("active", 5, l, EmptyDict, EmptyDict) : l \in LimitConfigs}
  \cup {NewCard("active", 5, OneLimit("weekly", 3), CategoryLimits, SubcategoryLimits)}

\* amounts the request schema accepts: condecimal(max_digits=10, decimal_places=2), any sign
SchemaAmounts == {0 - 1, 1, 2, 4}

PositiveAmounts == {a \in SchemaAmounts : a > 0}

LedgerAmounts == {0 - 1, 1, 2}

CafeName == <<"C", "a", "f", "e", "!">>

Requests(amounts) ==
  {Request(a, "purchase", mcc, name) :
     a \in amounts, mcc \in {None, <<"5811">>}, name \in {None, CafeName}}

TickSteps == {1, 7, 29, 31, 365}

NoEvent == [op |-> "none"]

SvcIdle == [pc |-> "idle", amount |-> 0]

RouterIdle == [pc |-> "idle"]

Procs == {1, 2}

Init ==
  /\ now = 0
  /\ card \in LedgerCards
  /\ calls = 0
  /\ ticks = 0
  /\ ev = NoEvent
  /\ svc = SvcIdle
  /\ rp = [p \in Procs |-> RouterIdle]
  /\ rules = DefaultRules

(***************************************************************************)
(* The clock moves.                                                        *)
(***************************************************************************)
Tick(steps) ==
  \E d \in steps :
    /\ ticks < MaxTicks
    /\ now + d <= MaxDay
    /\ now' = now + d
    /\ ticks' = ticks + 1
    /\ ev' = NoEvent
    /\ UNCHANGED <<card, calls, svc, rp, rules>>

(***************************************************************************)
(* A direct call VirtualCardService.update_spend(db, card, amount,         *)
(* merchant_category, success) on the current row.                         *)
(***************************************************************************)
UpdateSpendCall(amounts, categories) ==
  \E amount \in amounts, success \in BOOLEAN, merchant_category \in categories :
    /\ svc.pc = "idle"
    /\ calls < MaxCalls
    /\ card' = update_spend(card, amount, merchant_category, success, now)
    /\ calls' = calls + 1
    /\ ev' = [op |-> "update_spend", caller |-> "direct", amount |-> amount, success |-> success,
              merchant_category |-> merchant_category, pre |-> card, t |-> now]
    /\ UNCHANGED <<now, ticks, svc, rp, rules>>

(***************************************************************************)
(* A caller that authorizes one transaction at a time the way              *)
(* create_new_transaction is laid out: validate_transaction, then          *)
(* update_spend(success=True) when it returned, update_spend(success=False)*)
(* when it raised HTTPException; any other exception ends the call.        *)
(***************************************************************************)
Validate(requests) ==
  \E req \in requests :
    LET out == validate_transaction(card, req, now)
    IN /\ svc.pc = "idle"
       /\ calls < MaxCalls
       /\ calls' = calls + 1
       /\ svc' = [pc |-> IF out.kind = "ok" THEN "validated"
                         ELSE IF out.kind = "http" THEN "declined" ELSE "idle",
                  amount |-> req.amount]
       /\ ev' = [op |-> "validate", req |-> req, out |-> out, pre |-> card, t |-> now]
       /\ UNCHANGED <<now, card, ticks, rp, rules>>

Commit ==
  /\ svc.pc = "validated"
  /\ card' = update_spend(card, svc.amount, None, TRUE, now)
  /\ svc' = SvcIdle
  /\ ev' = [op |-> "update_spend", caller |-> "authorize", amount |-> svc.amount, success |-> TRUE,
            merchant_category |-> None, pre |-> card, t |-> now]
  /\ UNCHANGED <<now, calls, ticks, rp, rules>>

Fail ==
  /\ svc.pc = "declined"
  /\ card' = update_spend(card, svc.amount, None, FALSE, now)
  /\ svc' = SvcIdle
  /\ ev' = [op |-> "update_spend", caller |-> "authorize", amount |-> svc.amount, success |-> FALSE,
            merchant_category |-> None, pre |-> card, t |-> now]
  /\ UNCHANGED <<now, calls, ticks, rp, rules>>

Next ==
  \/ Tick(TickSteps)
  \/ UpdateSpendCall(LedgerAmounts, {None, Restaurants})
  \/ Validate(Requests(SchemaAmounts))
  \/ Commit
  \/ Fail

Spec == Init /\ [][Next]_vars

\* authorizations one at a time, positive amounts, nothing else touching the card
NextAuth ==
  \/ Tick(TickSteps)
  \/ Validate(Requests(PositiveAmounts))
  \/ Commit
  \/ Fail

SpecAuth == Init /\ [][NextAuth]_vars

\* the ledger alone: commits and the clock
NextLedger == Tick(TickSteps) \/ UpdateSpendCall(LedgerAmounts, {None, Restaurants})

SpecLedger == Init /\ [][NextLedger]_vars

(***************************************************************************)
(* validate_transaction over a range of cards and requests.                *)
(***************************************************************************)
WithControls(c, lists, flags) ==
  [c EXCEPT !.allowed_merchants = lists.allowed_merchants,
            !.blocked_merchants = lists.blocked_merchants,
            !.allowed_merchant_categories = lists.allowed_merchant_categories,
            !.blocked_merchant_categories = lists.blocked_merchant_categories,
            !.allowed_countries = lists.allowed_countries,
            !.blocked_countries = lists.blocked_countries,
            !.allow_online_transactions = flags,
            !.allow_contactless_transactions = flags,
            !.allow_cash_withdrawals = flags,
            !.allow_international_transactions = flags]

NoLists ==
  [allowed_merchants |-> {}, blocked_merchants |-> {},
   allowed_merchant_categories |-> {}, blocked_merchant_categories |-> {},
   allowed_countries |-> {}, blocked_countries |-> {}]

ListProfiles ==
  {NoLists,
   [NoLists EXCEPT !.allowed_merchants = {"m1", "m2"}, !.blocked_merchants = {"m1"}],
   [NoLists EXCEPT !.allowed_countries = {"CA", "XX"}, !.blocked_countries = {"XX"}],
   [NoLists EXCEPT !.allowed_merchant_categories = {<<"5811">>, Restaurants},
                   !.blocked_merchant_categories = {<<"5811">>, Restaurants}],
   [NoLists EXCEPT !.allowed_merchant_categories = {<<"5811">>, Restaurants},
                   !.blocked_merchant_categories = {<<"5811">>}]}

GateCards ==
  {WithControls(NewCard(st, balance, l, EmptyDict, EmptyDict), lists, flags) :
     st \in CardStatus, balance \in {2, 5}, l \in {EmptyDict, OneLimit("daily", 3)},
     lists \in ListProfiles, flags \in BOOLEAN}

GateRequests ==
  {[Request(a, "purchase", mcc, name) EXCEPT
      !.merchant_id = m, !.country_code = cc, !.is_online = o, !.is_international = o] :
     a \in {1, 4}, mcc \in {None, <<"5811">>, <<"7995">>}, name \in {None, CafeName},
     m \in {"", "m1", "m3"}, cc \in {"", "XX", "US"}, o \in BOOLEAN}

InitGates ==
  /\ now = 0
  /\ card \in GateCards
  /\ calls = 0
  /\ ticks = 0
  /\ ev = NoEvent
  /\ svc = SvcIdle
  /\ rp = [p \in Procs |-> RouterIdle]
  /\ rules = DefaultRules

NextGates == Validate(GateRequests)

SpecGates == InitGates /\ [][NextGates]_vars

(***************************************************************************)
(* Calls of MerchantCategoryService.map_merchant_to_category over the      *)
(* category rows; ev keeps the call before the last one as well.           *)
(***************************************************************************)
BarName == <<"B", "a", "r">>

ClassifyArgs ==
  [merchant_name : {None, CafeName, BarName, <<"b", "e", "t">>},
   merchant_description : {None, <<"b", "a", "r">>},
   mcc : {None, <<"5812">>, <<"9999">>},
   transaction_amount : {1, 4},
   payment_method : {"", "card_present"},
   country_code : {"", "US"}]

Classify ==
  \E a \in ClassifyArgs :
    /\ calls < MaxCalls
    /\ calls' = calls + 1
    /\ ev' = [op |-> "classify", args |-> a,
              result |-> map_merchant_to_category(a.merchant_name, a.merchant_description, a.mcc,
                                                  a.transaction_amount, a.payment_method,
                                                  a.country_code),
              prev |-> IF ev.op = "classify" THEN <<[args |-> ev.args, result |-> ev.result]>>
                       ELSE <<>>,
              pre |-> card, t |-> now]
    /\ UNCHANGED <<now, card, ticks, svc, rp, rules>>

InitClassify ==
  /\ now = 0
  /\ card = NewCard("active", 5, EmptyDict, EmptyDict, EmptyDict)
  /\ calls = 0
  /\ ticks = 0
  /\ ev = NoEvent
  /\ svc = SvcIdle
  /\ rp = [p \in Procs |-> RouterIdle]
  /\ rules = DefaultRules

NextClassify == Classify

SpecClassify == InitClassify /\ [][NextClassify]_vars

(***************************************************************************)
(* The transaction validator: register_rule and validate_transaction over  *)
(* agents, requests, contexts and histories.                               *)
(***************************************************************************)
SampleAgent ==
  [daily_spend_limit |-> 3, monthly_spend_limit |-> 5, current_daily_spend |-> 0,
   current_monthly_spend |-> 0, max_transaction_amount |-> 3, require_approval_above |-> 1,
   allowed_merchant_categories |-> {"retail"}, blocked_merchant_categories |-> {"gambling"},
   allowed_merchants |-> {"Amazon"}, blocked_merchants |-> {"BlockedStore"}]

Agents ==
  {SampleAgent,
   [SampleAgent EXCEPT !.current_daily_spend = NoneNum],
   [SampleAgent EXCEPT !.daily_spend_limit = 0, !.monthly_spend_limit = 0,
                       !.max_transaction_amount = 0, !.require_approval_above = 0,
                       !.allowed_merchant_categories = {}, !.blocked_merchant_categories = {},
                       !.allowed_merchants = {}, !.blocked_merchants = {}]}

NoHistory ==
  [recent_count |-> 0, merchant_count |-> 0, avg_amount |-> 0, call_count |-> 0,
   success_count |-> 0, last_tx |-> "none", recent_locations |-> <<>>,
   last_location_within_hour |-> FALSE, reservation_count |-> 0, subscription_count |-> 0]

Histories ==
  {NoHistory,
   [NoHistory EXCEPT !.call_count = 10, !.success_count = 5],
   [recent_count |-> 11, merchant_count |-> 6, avg_amount |-> 1, call_count |-> 10,
    success_count |-> 9, last_tx |-> "naive", recent_locations |-> <<"NYC", "LA">>,
    last_location_within_hour |-> TRUE, reservation_count |-> 0, subscription_count |-> 1]}

NoContext ==
  [present |-> FALSE, merchant_location |-> "", user_intent_words |-> 0,
   conversation_context |-> FALSE, conversation_id |-> "", transaction_purpose |-> "",
   previous_messages |-> 0, price_discussed |-> FALSE, has_budget |-> FALSE,
   budget_mentioned |-> 0, merchant_hours |-> "none"]

Contexts ==
  {NoContext,
   [present |-> TRUE, merchant_location |-> "NYC", user_intent_words |-> 3,
    conversation_context |-> TRUE, conversation_id |-> "c1", transaction_purpose |-> "subscription",
    previous_messages |-> 2, price_discussed |-> TRUE, has_budget |-> TRUE,
    budget_mentioned |-> 2, merchant_hours |-> "open"],
   [present |-> TRUE, merchant_location |-> "NYC", user_intent_words |-> 1,
    conversation_context |-> FALSE, conversation_id |-> "", transaction_purpose |-> "hotel_payment",
    previous_messages |-> 1, price_discussed |-> FALSE, has_budget |-> FALSE,
    budget_mentioned |-> 0, merchant_hours |-> "closed"]}

\* the merchant and the merchant_category of a request
Merchants == {<<"Amazon", "retail">>, <<"BlockedStore", "gambling">>}

RiskScenarios ==
  {[amount |-> amount, merchant |-> m[1], merchant_category |-> m[2], agent |-> agent,
    context |-> context, history |-> history, hour |-> hour] :
     amount \in {1, 2, 4}, m \in Merchants, agent \in Agents, context \in Contexts,
     history \in Histories, hour \in {12, 23}}

\* the rules a caller registers: a validation function and its risk_score
CustomRules ==
  {<<"accept", 0 - 10>>, <<"reject", 50>>, <<"broken", 50>>, <<"_validate_geographic", 50>>}

RegisterRule ==
  \E r \in CustomRules :
    /\ calls < MaxCalls
    /\ calls' = calls + 1
    /\ rules' = register_rule(rules, "custom", r[1], r[2])
    /\ ev' = [op |-> "register_rule", name |-> "custom", pre |-> card, t |-> now]
    /\ UNCHANGED <<now, card, ticks, svc, rp>>

RiskValidate ==
  \E sc \in RiskScenarios :
    /\ calls < MaxCalls
    /\ calls' = calls + 1
    /\ ev' = [op |-> "risk_validate", rules |-> rules, sc |-> sc,
              outcomes |-> RuleOutcomes(rules, sc),
              result |-> aggregate(rules, RuleOutcomes(rules, sc)),
              pre |-> card, t |-> now]
    /\ UNCHANGED <<now, card, ticks, svc, rp, rules>>

InitRisk ==
  /\ now = 0
  /\ card = NewCard("active", 5, EmptyDict, EmptyDict, EmptyDict)
  /\ calls = 0
  /\ ticks = 0
  /\ ev = NoEvent
  /\ svc = SvcIdle
  /\ rp = [p \in Procs |-> RouterIdle]
  /\ rules = DefaultRules

NextRisk == RegisterRule \/ RiskValidate

SpecRisk == InitRisk /\ [][NextRisk]_vars

(***************************************************************************)
(* create_new_transaction (api/v1/routers/transactions.py), one call per   *)
(* process.  Each call works on the card object it loaded; the calls       *)
(* interleave at the awaits.  The card is found and owned by the caller.   *)
(***************************************************************************)
\* CRUDBase.create: the stored record has the status it was given
transaction_create(status) == status

\* the status create_new_transaction gives a transaction it accepted
NewTransactionStatus == "pending"

\* CRUDBase.update(db, db_obj=card, obj_in=update_data): the attributes the call
\* changed on its card object are written to the row
Persist(row, loaded, updated) ==
  [f \in DOMAIN row |-> IF updated[f] # loaded[f] THEN updated[f] ELSE row[f]]

RouterRequests ==
  {Request(a, ty, mcc, None) :
     a \in {2, 4}, ty \in {"purchase", "withdrawal", "funding"}, mcc \in {None, <<"5811">>}}

RouterCards ==
  {NewCard("active", 3, OneLimit("daily", 3), EmptyDict, EmptyDict),
   NewCard("active", 5, OneLimit("weekly", 3), CategoryLimits, SubcategoryLimits),
   NewCard("active", 3, EmptyDict, EmptyDict, EmptyDict)}

RouterEvent(step, p) == [op |-> "create_new_transaction", step |-> step, p |-> p, pre |-> card, t |-> now]

\* lines 28-55: load the card and, for a purchase or withdrawal, validate
RBegin(p) ==
  \E req \in RouterRequests :
    LET out == IF req.type \in {"purchase", "withdrawal"}
               THEN validate_transaction(card, req, now) ELSE Ok
    IN /\ rp[p].pc \in {"idle", "returned"}
       /\ calls < MaxCalls
       /\ calls' = calls + 1
       /\ rp' = [rp EXCEPT ![p] =
                   [pc |-> IF out.kind = "ok" THEN "checked"
                           ELSE IF out.kind = "http" THEN "declined" ELSE "returned",
                    card |-> card, req |-> req, out |-> out, tx |-> "none", committed |-> FALSE]]
       /\ ev' = RouterEvent("validate", p)
       /\ UNCHANGED <<now, card, ticks, svc, rules>>

\* lines 56-64: the failed transaction record
RCreateFailed(p) ==
  /\ rp[p].pc = "declined"
  /\ rp' = [rp EXCEPT ![p].pc = "failed_recorded", ![p].tx = transaction_create("failed")]
  /\ ev' = RouterEvent("create_failed", p)
  /\ UNCHANGED <<now, card, calls, ticks, svc, rules>>

\* lines 66-74: update_spend(success=False), then the exception is raised again
RUpdateFailed(p) ==
  /\ rp[p].pc = "failed_recorded"
  /\ LET updated == update_spend(rp[p].card, rp[p].req.amount, None, FALSE, now)
     IN /\ card' = Persist(card, rp[p].card, updated)
        /\ rp' = [rp EXCEPT ![p].pc = "returned", ![p].card = updated]
  /\ ev' = RouterEvent("update_failed", p)
  /\ UNCHANGED <<now, calls, ticks, svc, rules>>

\* lines 76-94: the transaction record
RCreate(p) ==
  /\ rp[p].pc = "checked"
  /\ rp' = [rp EXCEPT ![p].pc = "created", ![p].tx = transaction_create(NewTransactionStatus)]
  /\ ev' = RouterEvent("create", p)
  /\ UNCHANGED <<now, card, calls, ticks, svc, rules>>

\* lines 96-105: update_spend(success=True) if the record is COMPLETED, then return
RFinish(p) ==
  /\ rp[p].pc = "created"
  /\ LET commit == rp[p].tx = "completed"
         updated == IF commit THEN update_spend(rp[p].card, rp[p].req.amount, None, TRUE, now)
                    ELSE rp[p].card
     IN /\ card' = Persist(card, rp[p].card, updated)
        /\ rp' = [rp EXCEPT ![p].pc = "returned", ![p].card = updated, ![p].committed = commit]
  /\ ev' = RouterEvent("finish", p)
  /\ UNCHANGED <<now, calls, ticks, svc, rules>>

InitRouter ==
  /\ now = 0
  /\ card \in RouterCards
  /\ calls = 0
  /\ ticks = 0
  /\ ev = NoEvent
  /\ svc = SvcIdle
  /\ rp = [p \in Procs |-> RouterIdle]
  /\ rules = DefaultRules

NextRouter ==
  \/ Tick({1})
  \/ UpdateSpendCall({2}, {None})
  \/ \E p \in Procs : RBegin(p)
  \/ \E p \in Procs : RCreateFailed(p)
  \/ \E p \in Procs : RUpdateFailed(p)
  \/ \E p \in Procs : RCreate(p)
  \/ \E p \in Procs : RFinish(p)

SpecRouter == InitRouter /\ [][NextRouter]_vars

(***************************************************************************)
(* Callers of update_spend(success=True) that run at the same time, one    *)
(* per process: each reads the card's row into its own object, then        *)
(* update_spend computes the new values from that object and               *)
(* virtual_card.update writes them to the row.                             *)
(***************************************************************************)
\* cards as issued and cards that already carry one committed transaction
ConcurrentCards ==
  LedgerCards \cup {update_spend(c, 1, None, TRUE, 0) : c \in LedgerCards}

CLoad(p) ==
  \E amount \in {1, 2} :
    /\ rp[p].pc \in {"idle", "stored"}
    /\ calls < MaxCalls
    /\ calls' = calls + 1
    /\ rp' = [rp EXCEPT ![p] = [pc |-> "loaded", card |-> card, amount |-> amount]]
    /\ ev' = [op |-> "load", p |-> p, pre |-> card, t |-> now]
    /\ UNCHANGED <<now, card, ticks, svc, rules>>

CStore(p) ==
  /\ rp[p].pc = "loaded"
  /\ card' = Persist(card, rp[p].card, update_spend(rp[p].card, rp[p].amount, None, TRUE, now))
  /\ rp' = [rp EXCEPT ![p].pc = "stored"]
  /\ ev' = [op |-> "store", p |-> p, pre |-> card, t |-> now]
  /\ UNCHANGED <<now, calls, ticks, svc, rules>>

InitConcurrent ==
  /\ now = 0
  /\ card \in ConcurrentCards
  /\ calls = 0
  /\ ticks = 0
  /\ ev = NoEvent
  /\ svc = SvcIdle
  /\ rp = [p \in Procs |-> RouterIdle]
  /\ rules = DefaultRules

NextConcurrent ==
  \/ \E p \in Procs : CLoad(p)
  \/ \E p \in Procs : CStore(p)

SpecConcurrent == InitConcurrent /\ [][NextConcurrent]_vars

(***************************************************************************)
(* Freezing and unfreezing a card: the handlers freeze_card and            *)
(* unfreeze_card (api/v1/routers/virtual_cards.py), bulk_freeze_cards and  *)
(* process_auto_unfreezes (CardManagementService) with VirtualCard.freeze  *)
(* and VirtualCard.unfreeze.  A duration is counted in days (24 hours);    *)
(* 0 stands for no duration.  The card is found and owned by the caller.   *)
(***************************************************************************)
\* VirtualCard.freeze
freeze(c, reason, duration, t) ==
  [c EXCEPT !.status = "frozen", !.freeze_reason = reason,
            !.auto_unfreeze_at = IF duration # 0 THEN t + duration ELSE c.auto_unfreeze_at]

\* VirtualCard.unfreeze
unfreeze(c) ==
  [c EXCEPT !.status = "active", !.freeze_reason = "", !.auto_unfreeze_at = NoTime]

FreezeEvent(op, done) == [op |-> op, done |-> done, pre |-> card, t |-> now]

\* POST /{card_id}/freeze
freeze_card ==
  LET refused == card.status \in {"cancelled", "frozen"}
  IN /\ calls < MaxCalls
     /\ calls' = calls + 1
     /\ card' = IF refused THEN card ELSE [card EXCEPT !.status = "frozen"]
     /\ ev' = FreezeEvent("freeze_card", ~refused)
     /\ UNCHANGED <<now, ticks, svc, rp, rules>>

\* POST /{card_id}/unfreeze
unfreeze_card ==
  LET refused == card.status = "cancelled" \/ card.status # "frozen"
  IN /\ calls < MaxCalls
     /\ calls' = calls + 1
     /\ card' = IF refused THEN card ELSE [card EXCEPT !.status = "active"]
     /\ ev' = FreezeEvent("unfreeze_card", ~refused)
     /\ UNCHANGED <<now, ticks, svc, rp, rules>>

\* CardManagementService.bulk_freeze_cards with this card among card_ids
bulk_freeze_cards ==
  \E duration \in {0, 1} :
    /\ calls < MaxCalls
    /\ calls' = calls + 1
    /\ card' = freeze(card, "bulk", duration, now)
    /\ ev' = FreezeEvent("bulk_freeze_cards", TRUE)
    /\ UNCHANGED <<now, ticks, svc, rp, rules>>

\* CardManagementService.process_auto_unfreezes
process_auto_unfreezes ==
  LET selected == /\ card.status = "frozen"
                  /\ card.auto_unfreeze_at # NoTime
                  /\ card.auto_unfreeze_at <= now
  IN /\ calls < MaxCalls
     /\ calls' = calls + 1
     /\ card' = IF selected THEN unfreeze(card) ELSE card
     /\ ev' = FreezeEvent("process_auto_unfreezes", selected)
     /\ UNCHANGED <<now, ticks, svc, rp, rules>>

InitFreeze ==
  /\ now = 0
  /\ card \in {NewCard(st, 5, EmptyDict, EmptyDict, EmptyDict) : st \in CardStatus}
  /\ calls = 0
  /\ ticks = 0
  /\ ev = NoEvent
  /\ svc = SvcIdle
  /\ rp = [p \in Procs |-> RouterIdle]
  /\ rules = DefaultRules

NextFreeze ==
  \/ Tick({1})
  \/ freeze_card
  \/ unfreeze_card
  \/ bulk_freeze_cards
  \/ process_auto_unfreezes

SpecFreeze == InitFreeze /\ [][NextFreeze]_vars

(***************************************************************************)
(* The period clock of the specification, against which the ledger is      *)
(* judged: a counter is stale when its period start is no longer the start *)
(* of the period `t` lies in; Total is never stale.                        *)
(***************************************************************************)
PeriodStale(last_reset, period, t) ==
  period # "total" /\ last_reset # get_period_start(period, t)

EffectiveSpend(spend, period, t) ==
  IF period \in DOMAIN spend /\ ~PeriodStale(spend[period].last_reset, period, t)
  THEN spend[period].amount ELSE 0

Committed == ev.op = "update_spend" /\ ev.success

LimitChecks == {"overall_limit", "category_limit", "subcategory_limit", "final_limit"}

\* C1: a successful update_spend on a counter (of a period other than Total) whose
\* period start lies in an earlier calendar period than `now` discards the old
\* accumulation: afterwards the counter holds exactly the amount just committed.
C1_ResetOnCommit ==
  (Committed /\ ev.amount > 0) =>
    \A p \in (DOMAIN ev.pre.spending_limits) \cap (DOMAIN ev.pre.current_spend) :
      (/\ ev.pre.spending_limits[p] > 0
       /\ ev.pre.current_spend[p].amount > 0
       /\ PeriodStale(ev.pre.current_spend[p].last_reset, p, ev.t))
        => card.current_spend[p].amount = ev.amount

\* C2: when validate_transaction meets a configured overall limit whose counter is
\* of an earlier period, the counter counts as 0: with amount <= limit the call is
\* not ended by that (scope, period) pair, whatever amount is stored.
C2_StaleCountsAsZero ==
  ev.op = "validate" =>
    \A p \in DOMAIN ev.pre.current_spend :
      (/\ Get(ev.pre.spending_limits, p, 0) > 0
       /\ ev.pre.current_spend[p].amount > 0
       /\ PeriodStale(ev.pre.current_spend[p].last_reset, p, ev.t)
       /\ ev.req.amount > 0
       /\ ev.req.amount <= ev.pre.spending_limits[p])
        => ~(ev.out.kind # "ok" /\ ev.out.check \in LimitChecks /\ ev.out.period = p)

\* C3: with authorizations one at a time and positive amounts, every configured
\* overall counter stays within its limit, and a transaction is declined exactly
\* when the effective accumulated amount plus its amount exceeds a limit.
C3_DeclinedIffOverLimit ==
  /\ \A p \in DOMAIN card.current_spend :
       Get(card.spending_limits, p, 0) > 0 => card.current_spend[p].amount <= card.spending_limits[p]
  /\ ev.op = "validate" =>
       LET over(p) == EffectiveSpend(ev.pre.current_spend, p, ev.t) + ev.req.amount
                        > ev.pre.spending_limits[p]
           configured == {p \in DOMAIN ev.pre.spending_limits : ev.pre.spending_limits[p] > 0}
       IN /\ (\E p \in configured : over(p)) => ev.out.kind = "http"
          /\ (ev.out.kind = "http" /\ ev.out.check \in LimitChecks /\ ev.out.period \in configured)
               => over(ev.out.period)

\* C6: a counter is never negative and an update_spend step never lowers it except
\* by a stale-period reset, for every amount the request schema and
\* validate_transaction accept (here: the commit that follows an accepted request).
C6_MonotonicNonNegative ==
  (/\ Committed
   /\ ev.caller = "authorize"
   /\ \A p \in DOMAIN ev.pre.current_spend : ev.pre.current_spend[p].amount >= 0)
    => \A p \in DOMAIN card.current_spend :
         /\ card.current_spend[p].amount >= 0
         /\ p \in DOMAIN ev.pre.current_spend =>
              \/ card.current_spend[p].amount >= ev.pre.current_spend[p].amount
              \/ PeriodStale(ev.pre.current_spend[p].last_reset, p, ev.t)

\* C7: a Total counter is stale at no instant, so it holds the sum of all amounts
\* ever committed to it, however much time passes between the commits.
C7_TotalNeverResets ==
  "total" \in DOMAIN card.spending_limits =>
    /\ "total" \in DOMAIN card.current_spend =>
         /\ ~is_limit_period_expired(card.current_spend["total"].last_reset, "total", now)
         /\ card.current_spend["total"].amount = card.total_spend
    /\ Committed =>
         card.current_spend["total"].amount
           = Get(ev.pre.current_spend, "total", DefaultPeriodData).amount + ev.amount

\* two commits to a Total counter at least a year apart, both amounts kept
C7_Witness ==
  /\ Committed
  /\ "total" \in DOMAIN ev.pre.current_spend
  /\ ev.pre.last_transaction_at # NoTime
  /\ ev.t - ev.pre.last_transaction_at >= 365
  /\ ev.pre.current_spend["total"].amount # 0
  /\ ev.amount # 0
  /\ card.current_spend["total"].amount = ev.pre.current_spend["total"].amount + ev.amount

\* C9: a pair whose limit is absent or <= 0 is no limit: validate_transaction never
\* ends a call because of it, and update_spend keeps no counter for it.
C9_NoLimitNeverDeclines ==
  /\ ev.op = "validate" =>
       ~(/\ ev.out.kind # "ok"
         /\ ev.out.check \in {"overall_limit", "final_limit"}
         /\ Get(ev.pre.spending_limits, ev.out.period, 0) <= 0)
  /\ (Committed /\ ev.amount > 0) =>
       \A p \in DOMAIN card.current_spend : Get(card.spending_limits, p, 0) > 0

\* C10: on a card that is frozen, cancelled or expired validate_transaction raises
\* "Card is <status>" whatever the request and the card's other fields are, before
\* the balance, any limit, the classifier or any other gate is looked at.
C10_StatusFirst ==
  (ev.op = "validate" /\ ev.pre.status # "active")
    => ev.out = Http(<<"Card is", ev.pre.status>>, "status")

\* a frozen card and a request that is over the balance and the daily limit and
\* whose classification would fail: the decline names the status
C10_Witness ==
  /\ ev.op = "validate"
  /\ ev.pre.status = "frozen"
  /\ ev.req.amount > ev.pre.balance
  /\ "daily" \in DOMAIN ev.pre.spending_limits
  /\ ev.req.amount > ev.pre.spending_limits["daily"]
  /\ ev.req.merchant_name = None
  /\ ev.req.merchant_category = None
  /\ ev.out.detail = <<"Card is", "frozen">>

Validated(p) == rp[p].pc # "idle" /\ rp[p].req.type \in {"purchase", "withdrawal"}

\* the call of process p has run validate_transaction and has not yet reached the
\* update_spend that ends its handler
InFlight(p) ==
  Validated(p) /\ rp[p].pc \in {"checked", "created", "declined", "failed_recorded"}

\* C4: of two concurrent create_new_transaction calls on one card, neither runs its
\* check or commit between the other's validate_transaction and update_spend: at
\* no instant are both calls past their check and short of their commit.
C4_NoInterleavedAuthorizations ==
  \A p, q \in Procs : (p # q /\ InFlight(p)) => ~InFlight(q)

Counters(c) == <<c.current_spend, c.category_current_spend, c.subcategory_current_spend>>

\* C5: while create_new_transaction handles a transaction that validate_transaction
\* did not accept, no overall, category or subcategory counter of the card changes
\* (amount or last_reset), update_spend(success=False) included.
C5_DeclineLeavesCounters ==
  (ev.op = "create_new_transaction" /\ rp[ev.p].out.kind # "ok")
    => Counters(card) = Counters(ev.pre)

\* a declined transaction on a card with a counter: update_spend(success=False) ran
\* and counted the failure
C5_Witness ==
  /\ ev.op = "create_new_transaction"
  /\ ev.step = "update_failed"
  /\ rp[ev.p].out.kind = "http"
  /\ card.current_spend # EmptyDict
  /\ card.failed_transaction_count = ev.pre.failed_transaction_count + 1
  /\ Counters(card) = Counters(ev.pre)

\* C8: a purchase or withdrawal that passed validate_transaction in
\* create_new_transaction has had update_spend(success=True) run for it when the
\* call returns.
C8_CommitFollowsSuccess ==
  \A p \in Procs :
    (rp[p].pc = "returned" /\ Validated(p) /\ rp[p].out.kind = "ok") => rp[p].committed

GatePos(check) == CHOOSE i \in 1..Len(GateOrder) : GateOrder[i] = check

\* the call was not ended by a check that comes before `gate`
Reached(out, gate) == out.kind = "ok" \/ GatePos(out.check) >= GatePos(gate)

\* the (value, block-list, allow-list) pairs validate_transaction looks at for a
\* request: the mapped category's code, the merchant id, the MCC, the country
ListPairs(c, req) ==
  LET mapped == map_merchant_to_category(req.merchant_name, req.merchant_description,
                                         req.merchant_category, req.amount, req.payment_method,
                                         req.country_code)
  IN <<[supplied |-> mapped > 0, value |-> IF mapped > 0 THEN Categories[mapped].code ELSE None,
        blocked |-> c.blocked_merchant_categories, allowed |-> c.allowed_merchant_categories,
       bcheck |-> "mapped_blocked", acheck |-> "mapped_allowed", first |-> "mapped_allowed"],
      [supplied |-> req.merchant_id # "", value |-> req.merchant_id,
       blocked |-> c.blocked_merchants, allowed |-> c.allowed_merchants,
       bcheck |-> "merchant_blocked", acheck |-> "merchant_allowed", first |-> "merchant_blocked"],
      [supplied |-> req.merchant_category # None, value |-> req.merchant_category,
       blocked |-> c.blocked_merchant_categories, allowed |-> c.allowed_merchant_categories,
       bcheck |-> "mcc_blocked", acheck |-> "mcc_allowed", first |-> "mcc_blocked"],
      [supplied |-> req.country_code # "", value |-> req.country_code,
       blocked |-> c.blocked_countries, allowed |-> c.allowed_countries,
       bcheck |-> "country_blocked", acheck |-> "country_allowed", first |-> "country_blocked"]>>

NodesWithMcc(mcc) == {i \in 1..Len(Categories) : mcc \in Categories[i].mcc_codes}

\* C12: when an MCC is supplied and some category's mcc_codes contains it,
\* map_merchant_to_category returns a category whose mcc_codes contains it, whatever
\* the merchant text (a missing name included), amount, payment method and country.
C12_MccShortCircuit ==
  (ev.op = "classify" /\ ev.args.mcc # None /\ NodesWithMcc(ev.args.mcc) # {})
    => ev.result \in NodesWithMcc(ev.args.mcc)

\* MCC 5812 with a merchant text that scores for another category, and with no
\* merchant text at all
C12_Witness ==
  /\ ev.op = "classify"
  /\ ev.args.mcc = <<"5812">>
  /\ ev.args.merchant_name = None
  /\ ev.args.merchant_description = None
  /\ ev.result > 0
  /\ Categories[ev.result].code = FoodAndDrink
  /\ ev.prev # <<>>
  /\ ev.prev[1].args.merchant_name = BarName
  /\ ev.prev[1].args.mcc = <<"5812">>
  /\ ev.prev[1].result = ev.result

\* C13: map_merchant_to_category never returns a category one of whose
\* excluded_words occurs in the normalized merchant text, whatever the other
\* inputs are, a supplied MCC included.
C13_ExclusionVeto ==
  (ev.op = "classify" /\ ev.result > 0)
    => ~\E w \in Categories[ev.result].excluded_words :
          Contains(SearchText(ev.args.merchant_name, ev.args.merchant_description), w)

RECURSIVE WeightOfInvalid(_, _, _)
WeightOfInvalid(rs, validation_results, i) ==
  IF i > Len(rs) THEN 0
  ELSE (IF validation_results[i].valid THEN 0 ELSE rs[i].risk_score)
       + WeightOfInvalid(rs, validation_results, i + 1)

InvalidReview == Verdict({"flipped"}, TRUE)

ValidVerdict == Verdict({}, FALSE)

\* C15: the risk_score validate_transaction returns is the sum of the registered
\* weights of exactly the rules whose recorded verdict is invalid
C15_ScoreIsSumOfInvalid ==
  ev.op = "risk_validate"
    => ev.result.risk_score = WeightOfInvalid(ev.rules, ev.result.validation_results, 1)

\* C16: a rule whose evaluation raises counts as an invalid verdict: it is
\* recorded invalid, review is required, and risk_score is what it would be had the
\* rule returned an invalid verdict
C16_FailingRuleMaximal ==
  ev.op = "risk_validate"
    => \A i \in 1..Len(ev.rules) :
         ev.outcomes[i].raised
           => /\ ~ev.result.validation_results[i].valid
              /\ ev.result.requires_review
              /\ ev.result.risk_score
                   = aggregate(ev.rules, [ev.outcomes EXCEPT ![i] = InvalidReview]).risk_score

\* C17: requires_review is true exactly when some recorded verdict, valid or
\* invalid, requests review or risk_score is at least 70
C17_ReviewIffRequestedOrHighScore ==
  ev.op = "risk_validate"
    => (ev.result.requires_review
          <=> \/ \E i \in 1..Len(ev.rules) : ev.result.validation_results[i].requires_review
              \/ ev.result.risk_score >= 70)

C19_RiskMonotone ==
  ev.op = "risk_validate"
    => \A i \in 1..Len(ev.rules) :
         ~ev.outcomes[i].raised
           => IF ev.outcomes[i].valid
              THEN aggregate(ev.rules, [ev.outcomes EXCEPT ![i] = InvalidReview]).risk_score
                     >= ev.result.risk_score
              ELSE aggregate(ev.rules, [ev.outcomes EXCEPT ![i] = ValidVerdict]).risk_score
                     <= ev.result.risk_score

CleanNoContext(sc) ==
  /\ sc.history = NoHistory
  /\ sc.agent = SampleAgent
  /\ sc.agent.current_daily_spend + sc.amount <= sc.agent.daily_spend_limit
  /\ sc.agent.current_monthly_spend + sc.amount <= sc.agent.monthly_spend_limit
  /\ sc.amount <= sc.agent.max_transaction_amount
  /\ sc.amount <= sc.agent.require_approval_above
  /\ sc.merchant \in sc.agent.allowed_merchants
  /\ sc.merchant_category \in sc.agent.allowed_merchant_categories
  /\ sc.context = NoContext

\* C20: under the default rules a clean transaction (no history, within every
\* limit, not above require_approval_above, allow-listed merchant and category)
\* submitted with no context gets valid = true and risk level low
C20_CleanApproved ==
  (ev.op = "risk_validate" /\ ev.rules = DefaultRules /\ CleanNoContext(ev.sc))
    => (ev.result.valid /\ ev.result.risk_level = "low")

(***************************************************************************)
(* Successive commits to one counter.                                      *)
(***************************************************************************)
\* the instant of the previous successful update_spend, when every earlier call
\* on the card was a successful one
PreviousCommit(c) ==
  IF c.total_transaction_count > 0 /\ c.failed_transaction_count = 0
  THEN c.last_transaction_at ELSE NoTime

SamePeriod(period, t1, t2) ==
  period = "total" \/ get_period_start(period, t1) = get_period_start(period, t2)

\* C21: the second of two successive commits to a counter whose instants lie in
\* the same calendar period adds to the counter instead of resetting it, and a
\* counter is treated as stale exactly when the start of the period of `now`
\* differs from its stored period start
C21_NoResetInsidePeriod ==
  (Committed /\ ev.amount > 0) =>
    \A p \in (DOMAIN ev.pre.spending_limits) \cap (DOMAIN ev.pre.current_spend) :
      /\ (/\ ev.pre.spending_limits[p] > 0
          /\ PreviousCommit(ev.pre) # NoTime
          /\ SamePeriod(p, PreviousCommit(ev.pre), ev.t))
           => card.current_spend[p].amount = ev.pre.current_spend[p].amount + ev.amount
      /\ is_limit_period_expired(ev.pre.current_spend[p].last_reset, p, ev.t)
           <=> PeriodStale(ev.pre.current_spend[p].last_reset, p, ev.t)

\* C22: after a successful commit at `now` the stored period start of every
\* counter touched is the start of the period `now` lies in: midnight of the day,
\* of the last Monday, of the first of the month, of 1 January (stated for the
\* periods that have a calendar start; a Total counter keeps the start it was
\* created with)
C22_StoredStartIsPeriodStart ==
  (Committed /\ ev.amount > 0) =>
    \A p \in (DOMAIN ev.pre.spending_limits) \ {"total"} :
      ev.pre.spending_limits[p] > 0
        => card.current_spend[p].last_reset = get_period_start(p, ev.t)

(***************************************************************************)
(* The scopes validate_transaction checked and the scopes the commit that  *)
(* follows it updates.                                                     *)
(***************************************************************************)
MappedCategory(req) ==
  map_merchant_to_category(req.merchant_name, req.merchant_description, req.merchant_category,
                           req.amount, req.payment_method, req.country_code)

\* the counters of one scope after a commit of `amount` at t that covers the scope
Covered(limits, spend_before, spend_after, amount, t) ==
  \A p \in DOMAIN limits :
    limits[p] > 0
      => /\ p \in DOMAIN spend_after
         /\ spend_after[p] = CommitPeriod(spend_before, p, amount, t)

\* C23: the successful commit of a transaction that validate_transaction
\* classified into subcategory S of category C and checked against the Overall,
\* Category C and Subcategory S limits adds the amount to every configured counter
\* of the three scopes
C23_CommitCoversCheckedScopes ==
  [][(/\ ev.op = "validate"
      /\ ev.out.kind = "ok"
      /\ ev.req.amount > 0
      /\ MappedCategory(ev.req) \notin {NoCategory, AttributeError}
      /\ ev'.op = "update_spend"
      /\ ev'.success)
       => LET code == Categories[MappedCategory(ev.req)].code
              root == RootCategory(code)
          IN /\ Covered(card.spending_limits, card.current_spend, card'.current_spend,
                        ev.req.amount, now)
             /\ root \in DOMAIN card.category_spending_limits
                  => Covered(card.category_spending_limits[root],
                             Get(card.category_current_spend, root, EmptyDict),
                             Get(card'.category_current_spend, root, EmptyDict),
                             ev.req.amount, now)
             /\ code \in DOMAIN card.subcategory_spending_limits
                  => Covered(card.subcategory_spending_limits[code],
                             Get(card.subcategory_current_spend, code, EmptyDict),
                             Get(card'.subcategory_current_spend, code, EmptyDict),
                             ev.req.amount, now)]_vars

(***************************************************************************)
(* The control gates of validate_transaction against its limit checks.     *)
(***************************************************************************)
ControlChecks ==
  {"online", "contactless", "cash", "international", "category_rules", "mapped_allowed",
   "mapped_blocked", "merchant_blocked", "merchant_allowed", "mcc_blocked", "mcc_allowed",
   "country_blocked", "country_allowed"}

\* the request is stopped by a transaction-type flag or by an allow or block list
FailsControlGate(c, req) ==
  \/ req.is_online /\ ~c.allow_online_transactions
  \/ req.is_contactless /\ ~c.allow_contactless_transactions
  \/ req.is_cash_withdrawal /\ ~c.allow_cash_withdrawals
  \/ req.is_international /\ ~c.allow_international_transactions
  \/ req.merchant_id # "" /\ req.merchant_id \in c.blocked_merchants
  \/ req.merchant_id # "" /\ c.allowed_merchants # {} /\ req.merchant_id \notin c.allowed_merchants
  \/ req.merchant_category # None /\ req.merchant_category \in c.blocked_merchant_categories
  \/ req.merchant_category # None /\ c.allowed_merchant_categories # {}
       /\ req.merchant_category \notin c.allowed_merchant_categories
  \/ req.country_code # "" /\ req.country_code \in c.blocked_countries
  \/ req.country_code # "" /\ c.allowed_countries # {} /\ req.country_code \notin c.allowed_countries

ExceedsLimit(c, req, t) ==
  \E p \in DOMAIN c.spending_limits :
    c.spending_limits[p] > 0 /\ EffectiveSpend(c.current_spend, p, t) + req.amount > c.spending_limits[p]

\* C24: a request on an active card with sufficient balance that fails a control
\* gate and would also exceed a spending limit is declined with the control
\* gate's reason
C24_ControlGatesFirst ==
  (/\ ev.op = "validate"
   /\ ev.pre.status = "active"
   /\ ev.pre.balance >= ev.req.amount
   /\ FailsControlGate(ev.pre, ev.req)
   /\ ExceedsLimit(ev.pre, ev.req, ev.t))
    => (ev.out.kind = "http" /\ ev.out.check \in ControlChecks)

(***************************************************************************)
(* The fuzzy path of map_merchant_to_category: the calls that find no      *)
(* category by MCC and return.                                             *)
(***************************************************************************)
FuzzyCall ==
  /\ ev.op = "classify"
  /\ (ev.args.mcc = None \/ get_category_by_mcc(ev.args.mcc) = NoCategory)
  /\ ev.result # AttributeError

\* the composite score of node i in the call, -1 for a disqualified node
NodeScore(i) ==
  CategoryScore(Categories[i], SearchText(ev.args.merchant_name, ev.args.merchant_description),
                ev.args.transaction_amount, ev.args.payment_method, ev.args.country_code)

Qualified == {i \in 1..Len(Categories) : NodeScore(i) # 0 - 1}

\* C25: with no MCC match, map_merchant_to_category returns the first node in
\* iteration order that attains the maximum score among the nodes not
\* disqualified when that maximum is at least 40 (400 in tenths), and None
\* otherwise
C25_FuzzyFirstMaximum ==
  FuzzyCall =>
    LET top == Max({0 - 1} \cup {NodeScore(i) : i \in Qualified})
        winners == {i \in Qualified : NodeScore(i) = top}
    IN IF top >= 400
       THEN ev.result = CHOOSE i \in winners : \A j \in winners : i <= j
       ELSE ev.result = NoCategory

\* two nodes tie at the maximum and the earlier one is returned
C25_Witness ==
  /\ FuzzyCall
  /\ \E i, j \in Qualified :
       /\ i < j
       /\ NodeScore(i) = NodeScore(j)
       /\ NodeScore(i) >= 400
       /\ \A k \in Qualified : NodeScore(k) <= NodeScore(i)
       /\ ev.result = i

\* the score of node i in the call had no country code been supplied
NodeScoreNoCountry(i) ==
  CategoryScore(Categories[i], SearchText(ev.args.merchant_name, ev.args.merchant_description),
                ev.args.transaction_amount, ev.args.payment_method, "")

\* C26: when a country code is supplied, a node whose restricted_jurisdictions
\* holds it is disqualified and never returned by the fuzzy path, and every other
\* node, one with no restricted jurisdictions included, scores 20 (200 in tenths)
\* more than without the country code
C26_GeographicFit ==
  (FuzzyCall /\ ev.args.country_code # "") =>
    \A i \in 1..Len(Categories) :
      IF ev.args.country_code \in Categories[i].restricted_jurisdictions
      THEN NodeScore(i) = 0 - 1 /\ ev.result # i
      ELSE NodeScoreNoCountry(i) # 0 - 1 => NodeScore(i) = NodeScoreNoCountry(i) + 200

(***************************************************************************)
(* Rules that raise during validate_transaction.                           *)
(***************************************************************************)
\* the weights of the rules that returned an invalid verdict
RECURSIVE WeightOfReturnedInvalid(_, _, _)
WeightOfReturnedInvalid(rs, outcomes, i) ==
  IF i > Len(rs) THEN 0
  ELSE (IF ~outcomes[i].raised /\ ~outcomes[i].valid THEN rs[i].risk_score ELSE 0)
       + WeightOfReturnedInvalid(rs, outcomes, i + 1)

\* C27: when a registered rule raises, validate_transaction still returns a
\* result, and every other rule, before or after the failing one, has its verdict
\* recorded in validation_results and counted in risk_score and requires_review
C27_RuleErrorIsolation ==
  (ev.op = "risk_validate" /\ \E i \in 1..Len(ev.rules) : ev.outcomes[i].raised)
    => /\ Len(ev.result.validation_results) = Len(ev.rules)
       /\ \A j \in 1..Len(ev.rules) :
            ~ev.outcomes[j].raised
              => /\ ev.result.validation_results[j].valid = ev.outcomes[j].valid
                 /\ ev.result.validation_results[j].requires_review
                      = ev.outcomes[j].requires_review
                 /\ (~ev.outcomes[j].valid /\ ev.outcomes[j].requires_review)
                      => ev.result.requires_review
       /\ ev.result.risk_score = WeightOfReturnedInvalid(ev.rules, ev.outcomes, 1)

\* the first rule raises and a later rule's invalid verdict is recorded and counted
C27_Witness ==
  /\ ev.op = "risk_validate"
  /\ ev.outcomes[1].raised
  /\ \E j \in 2..Len(ev.rules) :
       /\ ~ev.outcomes[j].raised
       /\ ~ev.outcomes[j].valid
       /\ ~ev.result.validation_results[j].valid
       /\ ev.result.risk_score >= ev.rules[j].risk_score
       /\ ev.rules[j].risk_score > 0

(***************************************************************************)
(* The aggregated list of risk factors.                                    *)
(***************************************************************************)
\* the first rule whose invalid verdict lists factor f
FirstSeen(f) ==
  CHOOSE i \in 1..Len(ev.rules) :
    /\ ~ev.outcomes[i].raised /\ ~ev.outcomes[i].valid /\ f \in ev.outcomes[i].risk_factors
    /\ \A j \in 1..(i - 1) :
         ~(~ev.outcomes[j].raised /\ ~ev.outcomes[j].valid /\ f \in ev.outcomes[j].risk_factors)

\* C28: the risk_factors list of the result holds exactly the factors of the
\* invalid verdicts, each once, in the order of the rules that first listed them
C28_FactorsUnionNoDuplicates ==
  ev.op = "risk_validate" =>
    LET rf == ev.result.risk_factors
    IN /\ {rf[k] : k \in 1..Len(rf)}
            = UNION {ev.outcomes[i].risk_factors :
                       i \in {j \in 1..Len(ev.rules) : ~ev.outcomes[j].raised /\ ~ev.outcomes[j].valid}}
       /\ \A k, l \in 1..Len(rf) : k < l => rf[k] # rf[l]
       /\ \A k, l \in 1..Len(rf) : k < l => FirstSeen(rf[k]) <= FirstSeen(rf[l])

(***************************************************************************)
(* Two update_spend calls that started from the same read of the card.     *)
(***************************************************************************)
\* C29: when two update_spend(success=True) calls for a1 and a2 both read the
\* card before either wrote it, the row afterwards holds, in every configured
\* overall counter, the prior amount plus a1 plus a2, and total_transaction_count
\* has grown by 2
C29_NoLostUpdate ==
  (/\ rp[1].pc = "stored"
   /\ rp[2].pc = "stored"
   /\ rp[1].card = rp[2].card)
    => LET prior == rp[1].card
       IN /\ card.total_transaction_count = prior.total_transaction_count + 2
          /\ \A p \in DOMAIN prior.spending_limits :
               (/\ p \in DOMAIN prior.current_spend
                /\ ~is_limit_period_expired(prior.current_spend[p].last_reset, p, now))
                 => card.current_spend[p].amount
                      = prior.current_spend[p].amount + rp[1].amount + rp[2].amount

(***************************************************************************)
(* The life cycle of a card's status.                                      *)
(***************************************************************************)
\* C30: a cancelled card stays cancelled under freeze, unfreeze, bulk freeze and
\* automatic unfreeze, and an unfreeze makes a card active only when the card is
\* frozen
C30_CancelledIsTerminal ==
  [][/\ card.status = "cancelled" => card'.status = "cancelled"
     /\ (ev'.op \in {"unfreeze_card", "process_auto_unfreezes"} /\ ev'.done)
          => (card.status = "frozen" /\ card'.status = "active")]_vars

====
